---- MODULE Spec2Model ----
(***************************************************************************)
(* Single-table music library: the DynamoDBService entity store            *)
(* (backend/database.py) and the FastAPI handlers that drive it            *)
(* (backend/songs.py, backend/playlists.py, request models of              *)
(* backend/models.py).                                                     *)
(*                                                                         *)
(* Python str values that take part in key construction are sequences of   *)
(* one-character strings, so that f-string concatenation, begins_with and  *)
(* the byte order of sort keys are computed, not assumed.  Optional values *)
(* are None == <<>> or Some(v) == <<v>>.  An item is a record whose        *)
(* DOMAIN is the set of attributes the item carries.                       *)
(***************************************************************************)
EXTENDS Integers, Sequences, FiniteSets, TLC

VARIABLES
    table,   \* the DynamoDB table: key <<PK, SK>> |-> item
    now,     \* the reading of datetime.utcnow()
    issued,  \* the values uuid.uuid4() has returned
    last,    \* the last completed call: its arguments and its outcome
    procs    \* the calls in progress, one per concurrent process

vars == <<table, now, issued, last, procs>>

-----------------------------------------------------------------------------
(* Bounds of the model *)

\* the wall clock takes the values 0..MaxTime
MaxTime == 1

-----------------------------------------------------------------------------
(* Python values *)

None == <<>>
Some(v) == <<v>>

\* the characters used, in increasing code point (ASCII) order
Ascii == <<"#", "-", "0", "1", "2", "3", "4", "5", "6", "7", "8", "9",
           "A", "B", "C", "D", "E", "F", "G", "H", "I", "J", "K", "L", "M",
           "N", "O", "P", "Q", "R", "S", "T", "U", "V", "W", "X", "Y", "Z",
           "a", "b", "c", "d", "e", "f", "g", "h", "i", "j", "k", "l", "m",
           "n", "o", "p", "q", "r", "s", "t", "u", "v", "w", "x", "y", "z">>

Ord(c) == CHOOSE i \in 1..Len(Ascii) : Ascii[i] = c

\* a < b in the byte order DynamoDB uses for string sort keys
StrLess(a, b) ==
    \E i \in 1..(Len(b)) :
        /\ i <= Len(a) + 1
        /\ \A j \in 1..(i - 1) : a[j] = b[j]
        /\ \/ i = Len(a) + 1
           \/ /\ i <= Len(a)
              /\ Ord(a[i]) < Ord(b[i])

\* str.lower()
Lower(s) ==
    [i \in 1..Len(s) |-> IF Ord(s[i]) \in 13..38 THEN Ascii[Ord(s[i]) + 26] ELSE s[i]]

\* needle in haystack, for str
Contains(haystack, needle) ==
    \E i \in 0..(Len(haystack) - Len(needle)) :
        SubSeq(haystack, i + 1, i + Len(needle)) = needle

\* str.startswith / Key(..).begins_with
BeginsWith(s, prefix) ==
    /\ Len(prefix) <= Len(s)
    /\ SubSeq(s, 1, Len(prefix)) = prefix

DigitChar(d) == Ascii[d + 3]

RECURSIVE Digits(_)
Digits(n) == IF n < 10 THEN <<DigitChar(n)>>
             ELSE Digits(n \div 10) \o <<DigitChar(n % 10)>>

RECURSIVE ZeroPad(_, _)
ZeroPad(s, width) == IF Len(s) >= width THEN s ELSE ZeroPad(<<"0">> \o s, width)

\* f"{position:04d}": sign-aware zero padding to a minimum width of 4
Format04d(position) ==
    IF position < 0 THEN <<"-">> \o ZeroPad(Digits(-position), 3)
    ELSE ZeroPad(Digits(position), 4)

\* dict.get(key) -> value or None
DictGet(d, key) == IF key \in DOMAIN d THEN d[key] ELSE None

\* {**a, **b}: the attributes of both, b's value where both define one
Merge(a, b) ==
    [f \in (DOMAIN a) \cup (DOMAIN b) |-> IF f \in DOMAIN b THEN b[f] ELSE a[f]]

-----------------------------------------------------------------------------
(* Key codec: the f-strings that build PK and SK *)

METADATA == <<"M", "E", "T", "A", "D", "A", "T", "A">>
SongPrefix == <<"S", "O", "N", "G", "#">>
PlaylistPrefix == <<"P", "L", "A", "Y", "L", "I", "S", "T", "#">>

UserPK(user_id) == <<"U", "S", "E", "R", "#">> \o user_id
SongPK(song_id) == SongPrefix \o song_id
SongSK(song_id) == SongPrefix \o song_id
PlaylistSK(playlist_id) == PlaylistPrefix \o playlist_id
PlaylistPK(playlist_id) == PlaylistPrefix \o playlist_id

\* PlaylistSongSK with a fault: the sort key holds the position alone
PlaylistSongSK_PositionOnly(song_id, position) ==
    SongPrefix \o Format04d(position)

PlaylistSongSK(song_id, position) ==
    SongPrefix \o song_id \o <<"#">> \o Format04d(position)

-----------------------------------------------------------------------------
(* The table: a function from the keys <<PK, SK>> present to their items *)

KeyOf(item) == <<item.PK, item.SK>>

\* Table.put_item: unconditional overwrite of the item at the item's key
PutItem(t, item) ==
    [k \in (DOMAIN t) \cup {KeyOf(item)} |-> IF k = KeyOf(item) THEN item ELSE t[k]]

\* Table.get_item(...).get('Item')
GetItem(t, key) == IF key \in DOMAIN t THEN Some(t[key]) ELSE None

\* Table.delete_item: no error when the key is absent
DeleteItem(t, key) == [k \in (DOMAIN t) \ {key} |-> t[k]]

\* attribute names of this table that are DynamoDB reserved words and so
\* cannot appear bare in an UpdateExpression
ReservedWords == {"name"}

\* the UpdateExpression "SET f = :f, ..." is accepted by the store
UpdateAccepted(sets) == (DOMAIN sets # {}) /\ ((DOMAIN sets) \cap ReservedWords = {})

\* Table.update_item with a SET expression: edits the item at key, or creates
\* one holding the key and the SET attributes when there is none (upsert)
UpdateItem(t, key, sets) ==
    LET base == IF key \in DOMAIN t THEN t[key] ELSE [PK |-> key[1], SK |-> key[2]]
    IN  [k \in (DOMAIN t) \cup {key} |-> IF k = key THEN Merge(base, sets) ELSE t[k]]

RECURSIVE SortKeys(_)
SortKeys(S) ==
    IF S = {} THEN <<>>
    ELSE LET m == CHOOSE x \in S : \A y \in S \ {x} : StrLess(x[2], y[2])
         IN  <<m>> \o SortKeys(S \ {m})

\* Table.query(PK = pk AND begins_with(SK, prefix))['Items']: the items of the
\* partition in ascending sort-key order
Query(t, pk, prefix) ==
    LET keys == {k \in DOMAIN t : k[1] = pk /\ BeginsWith(k[2], prefix)}
        order == SortKeys(keys)
    IN  [i \in 1..Len(order) |-> t[order[i]]]

-----------------------------------------------------------------------------
(* DynamoDBService.  Each method is an operator from the table (and the     *)
(* clock reading, where the method reads the clock) to                     *)
(*   [t |-> the table afterwards, ret |-> the value returned,              *)
(*    exc |-> "" or the exception raised]                                  *)
(* Attributes written from optional request fields (rating, notes,         *)
(* play_count, name, description, is_public) hold Optional values.         *)

Result(t, ret, exc) == [t |-> t, ret |-> ret, exc |-> exc]

db_create_user(t, time, user_id, email, username) ==
    LET item == [PK |-> UserPK(user_id), SK |-> METADATA, user_id |-> user_id,
                 email |-> email, username |-> username, created_at |-> time,
                 entity_type |-> "user"]
    IN  Result(PutItem(t, item), item, "")

db_get_user(t, user_id) == GetItem(t, <<UserPK(user_id), METADATA>>)

NewSongItem(song_id, song_data) ==
    Merge([PK |-> SongPK(song_id), SK |-> METADATA, song_id |-> song_id,
           entity_type |-> "song",
           GSI1PK |-> <<"A", "R", "T", "I", "S", "T", "#">> \o song_data.artist,
           GSI1SK |-> <<"T", "I", "T", "L", "E", "#">> \o song_data.title,
           GSI2PK |-> <<"G", "E", "N", "R", "E", "#">> \o
                      (IF "genre" \in DOMAIN song_data THEN song_data.genre
                       ELSE <<"U", "n", "k", "n", "o", "w", "n">>),
           GSI2SK |-> SongPrefix \o song_id],
          song_data)

db_create_song(t, song_id, song_data) ==
    LET item == NewSongItem(song_id, song_data)
    IN  Result(PutItem(t, item), item, "")

db_get_song(t, song_id) == GetItem(t, <<SongPK(song_id), METADATA>>)

NewUserSongItem(time, user_id, song_id, song_data) ==
    [PK |-> UserPK(user_id), SK |-> SongSK(song_id), user_id |-> user_id,
     song_id |-> song_id, added_at |-> time,
     rating |-> DictGet(song_data, "rating"),
     notes |-> DictGet(song_data, "notes"),
     play_count |-> Some(0), entity_type |-> "user_song"]

\* add_song_to_user_collection with a fault: an existing User-Song record is kept
db_add_song_to_user_collection_IfAbsent(t, time, user_id, song_id, song_data) ==
    LET t1 == IF db_get_song(t, song_id) = None
              THEN db_create_song(t, song_id, song_data).t ELSE t
        key == <<UserPK(user_id), SongSK(song_id)>>
        item == IF key \in DOMAIN t THEN t[key]
                ELSE NewUserSongItem(time, user_id, song_id, song_data)
    IN  Result(PutItem(t1, item), item, "")

db_add_song_to_user_collection(t, time, user_id, song_id, song_data) ==
    LET existing_song == db_get_song(t, song_id)
        t1 == IF existing_song = None THEN db_create_song(t, song_id, song_data).t ELSE t
        item == NewUserSongItem(time, user_id, song_id, song_data)
    IN  Result(PutItem(t1, item), item, "")

\* the loop body of get_user_songs / get_playlist_songs over the queried rows
Combine(t, rows) ==
    LET found == SelectSeq(rows, LAMBDA row : db_get_song(t, row.song_id) # None)
    IN  [i \in 1..Len(found) |-> Merge(db_get_song(t, found[i].song_id)[1], found[i])]

db_get_user_songs(t, user_id) ==
    LET rows == Query(t, UserPK(user_id), SongPrefix)
    IN  IF \E i \in 1..Len(rows) : "song_id" \notin DOMAIN rows[i]
        THEN Result(t, <<>>, "KeyError")
        ELSE Result(t, Combine(t, rows), "")

\* the fields of updates whose value is not None
NonNull(updates) == [f \in {g \in DOMAIN updates : updates[g] # None} |-> updates[f]]

UpdateAt(t, key, updates) ==
    LET sets == NonNull(updates)
    IN  IF ~UpdateAccepted(sets) THEN Result(t, None, "ValidationException")
        ELSE LET t1 == UpdateItem(t, key, sets)
             IN  Result(t1, t1[key], "")

db_update_user_song(t, user_id, song_id, updates) ==
    UpdateAt(t, <<UserPK(user_id), SongSK(song_id)>>, updates)

db_remove_song_from_user_collection(t, user_id, song_id) ==
    Result(DeleteItem(t, <<UserPK(user_id), SongSK(song_id)>>), None, "")

db_create_playlist(t, time, playlist_id, user_id, playlist_data) ==
    LET item == Merge([PK |-> UserPK(user_id), SK |-> PlaylistSK(playlist_id),
                       playlist_id |-> playlist_id, user_id |-> user_id,
                       created_at |-> time, entity_type |-> "playlist"],
                      playlist_data)
    IN  Result(PutItem(t, item), item, "")

db_get_user_playlists(t, user_id) == Query(t, UserPK(user_id), PlaylistPrefix)

db_get_playlist(t, user_id, playlist_id) ==
    GetItem(t, <<UserPK(user_id), PlaylistSK(playlist_id)>>)

db_update_playlist(t, user_id, playlist_id, updates) ==
    UpdateAt(t, <<UserPK(user_id), PlaylistSK(playlist_id)>>, updates)

NewPlaylistSongItem(time, playlist_id, song_id, position) ==
    [PK |-> PlaylistPK(playlist_id), SK |-> PlaylistSongSK(song_id, position),
     playlist_id |-> playlist_id, song_id |-> song_id, position |-> position,
     added_at |-> time, entity_type |-> "playlist_song"]

db_add_song_to_playlist(t, time, playlist_id, song_id, position) ==
    LET item == NewPlaylistSongItem(time, playlist_id, song_id, position)
    IN  Result(PutItem(t, item), item, "")

\* sorted(songs, key=lambda x: x['position']): stable, ascending
RECURSIVE InsertByPosition(_, _)
InsertByPosition(sorted, x) ==
    IF sorted = <<>> THEN <<x>>
    ELSE IF sorted[Len(sorted)].position <= x.position THEN Append(sorted, x)
    ELSE Append(InsertByPosition(SubSeq(sorted, 1, Len(sorted) - 1), x),
                sorted[Len(sorted)])

\* SortedByPosition with a fault: the list stays in the order the query gave it
SortedByPosition_Unsorted(songs) == songs

RECURSIVE SortedByPosition(_)
SortedByPosition(songs) ==
    IF songs = <<>> THEN <<>>
    ELSE InsertByPosition(SortedByPosition(SubSeq(songs, 1, Len(songs) - 1)),
                          songs[Len(songs)])

db_get_playlist_songs(t, playlist_id) ==
    LET rows == Query(t, PlaylistPK(playlist_id), SongPrefix)
    IN  IF \E i \in 1..Len(rows) : "song_id" \notin DOMAIN rows[i]
        THEN Result(t, <<>>, "KeyError")
        ELSE Result(t, SortedByPosition(Combine(t, rows)), "")

RECURSIVE DeleteEach(_, _, _)
DeleteEach(t, pk, songs) ==
    IF songs = <<>> THEN t
    ELSE DeleteEach(DeleteItem(t, <<pk, songs[1].SK>>), pk, Tail(songs))

db_delete_playlist(t, user_id, playlist_id) ==
    LET playlist_songs == db_get_playlist_songs(t, playlist_id)
    IN  IF playlist_songs.exc # "" THEN Result(t, None, playlist_songs.exc)
        ELSE Result(DeleteItem(DeleteEach(t, PlaylistPK(playlist_id), playlist_songs.ret),
                               <<UserPK(user_id), PlaylistSK(playlist_id)>>),
                    None, "")

\* k1 comes before k2 in the index whose sort key is the attribute sk; items
\* with equal index sort keys are taken in the order of their table keys
IndexLess(t, sk, k1, k2) ==
    \/ StrLess(t[k1][sk], t[k2][sk])
    \/ /\ t[k1][sk] = t[k2][sk]
       /\ \/ StrLess(k1[1], k2[1])
          \/ k1[1] = k2[1] /\ StrLess(k1[2], k2[2])

RECURSIVE SortIndexKeys(_, _, _)
SortIndexKeys(t, sk, S) ==
    IF S = {} THEN <<>>
    ELSE LET m == CHOOSE x \in S : \A y \in S \ {x} : IndexLess(t, sk, x, y)
         IN  <<m>> \o SortIndexKeys(t, sk, S \ {m})

\* Table.query(IndexName=..., pk = value)['Items']: the items projected into
\* the index under that partition key, in index sort-key order
QueryIndex(t, pk, sk, value) ==
    LET keys == {k \in DOMAIN t : /\ pk \in DOMAIN t[k]
                                   /\ sk \in DOMAIN t[k]
                                   /\ t[k][pk] = value}
        order == SortIndexKeys(t, sk, keys)
    IN  [i \in 1..Len(order) |-> t[order[i]]]

db_search_songs_by_artist(t, artist) ==
    QueryIndex(t, "GSI1PK", "GSI1SK", <<"A", "R", "T", "I", "S", "T", "#">> \o artist)

db_search_songs_by_genre(t, genre) ==
    QueryIndex(t, "GSI2PK", "GSI2SK", <<"G", "E", "N", "R", "E", "#">> \o genre)

-----------------------------------------------------------------------------
(* Inputs *)

\* get_user_id_from_context() returns "mock-user-id"
MockUserId == <<"m", "o", "c", "k", "-", "u", "s", "e", "r", "-", "i", "d">>
OtherUserId == <<"x">>
Users == {MockUserId, OtherUserId}
\* the users whose library the entity-store operations are run for
LibraryUsers == {MockUserId}

\* the values uuid.uuid4() draws from, for POST /songs and for create_playlist;
\* a value is drawn at most once
SongUuids == {<<"a">>, <<"b">>}
PlaylistUuids == {<<"p">>}
SongIds == SongUuids
PlaylistIds == PlaylistUuids
Positions == {1, 2, 10}

Queen == <<"Q", "u", "e", "e", "n">>
Bohemian == <<"B", "o", "h", "e", "m", "i", "a", "n">>
Rock == <<"R", "o", "c", "k">>

\* song fields as the handler passes them on: no None values
SongDatas ==
    { [title |-> Bohemian, artist |-> Queen],
      [title |-> Bohemian, artist |-> Queen, genre |-> Rock, year |-> 1975,
       rating |-> Some(4), notes |-> Some("classic")] }

\* updates handed to update_user_song
UserSongUpdates ==
    { [rating |-> None, notes |-> None],
      [rating |-> Some(2), notes |-> None, play_count |-> Some(7)] }

\* playlist fields as create_playlist (the handler) passes them on
PlaylistDatas ==
    { [name |-> Some("mix"), description |-> None, is_public |-> Some(FALSE)] }

-----------------------------------------------------------------------------
(* State *)

\* what the last completed call was and how it ended; before is the item the
\* table held at the key the call addresses when the call began, None when it
\* held none or the call addresses no single key
Called(op, args, time, before, res) ==
    [op |-> op, args |-> args, time |-> time, before |-> before,
     ret |-> res.ret, exc |-> res.exc, status |-> 0]

Idle == [pc |-> "idle"]
Procs == {1, 2}

Init ==
    /\ table = <<>>
    /\ now = 0
    /\ issued = {}
    /\ last = Called("init", <<>>, 0, None, Result(<<>>, None, ""))
    /\ procs = [p \in Procs |-> Idle]

\* datetime.utcnow() advances between calls
Tick ==
    /\ now < MaxTime
    /\ now' = now + 1
    /\ UNCHANGED <<table, issued, last, procs>>

\* a service method runs to completion
Complete(op, args, key, res) ==
    /\ table' = res.t
    /\ last' = Called(op, args, now,
                       IF key = None THEN None ELSE GetItem(table, key), res)
    /\ UNCHANGED <<now, procs>>

-----------------------------------------------------------------------------
(* Entity store operations, each run to completion *)

CreateUser ==
    \E u \in LibraryUsers :
        /\ Complete("create_user", [user_id |-> u], <<UserPK(u), METADATA>>,
                    db_create_user(table, now, u, "e@x", "name"))
        /\ UNCHANGED issued

CreateSong ==
    \E s \in SongIds, d \in SongDatas :
        /\ Complete("create_song", [song_id |-> s, song_data |-> d],
                    <<SongPK(s), METADATA>>, db_create_song(table, s, d))
        /\ UNCHANGED issued

AddSongToUserCollection ==
    \E u \in LibraryUsers, s \in SongIds, d \in SongDatas :
        /\ Complete("add_song_to_user_collection",
                    [user_id |-> u, song_id |-> s, song_data |-> d],
                    <<UserPK(u), SongSK(s)>>,
                    db_add_song_to_user_collection(table, now, u, s, d))
        /\ UNCHANGED issued

GetUserSongs ==
    \E u \in LibraryUsers :
        /\ Complete("get_user_songs", [user_id |-> u], None, db_get_user_songs(table, u))
        /\ UNCHANGED issued

UpdateUserSong ==
    \E u \in LibraryUsers, s \in SongIds, upd \in UserSongUpdates :
        /\ Complete("update_user_song",
                    [user_id |-> u, song_id |-> s, updates |-> upd],
                    <<UserPK(u), SongSK(s)>>,
                    db_update_user_song(table, u, s, upd))
        /\ UNCHANGED issued

RemoveSongFromUserCollection ==
    \E u \in LibraryUsers, s \in SongIds :
        /\ Complete("remove_song_from_user_collection",
                    [user_id |-> u, song_id |-> s], <<UserPK(u), SongSK(s)>>,
                    db_remove_song_from_user_collection(table, u, s))
        /\ UNCHANGED issued

\* playlist_id = str(uuid.uuid4()) inside create_playlist
CreatePlaylist ==
    \E u \in Users, p \in PlaylistUuids \ issued, d \in PlaylistDatas :
        /\ Complete("create_playlist", [user_id |-> u, playlist_data |-> d],
                    <<UserPK(u), PlaylistSK(p)>>,
                    db_create_playlist(table, now, p, u, d))
        /\ issued' = issued \cup {p}

DeletePlaylist ==
    \E u \in Users, p \in PlaylistIds :
        /\ Complete("delete_playlist", [user_id |-> u, playlist_id |-> p],
                    <<UserPK(u), PlaylistSK(p)>>,
                    db_delete_playlist(table, u, p))
        /\ UNCHANGED issued

AddSongToPlaylist ==
    \E p \in PlaylistIds, s \in SongIds, n \in Positions :
        /\ Complete("add_song_to_playlist",
                    [playlist_id |-> p, song_id |-> s, position |-> n],
                    <<PlaylistPK(p), PlaylistSongSK(s, n)>>,
                    db_add_song_to_playlist(table, now, p, s, n))
        /\ UNCHANGED issued

GetPlaylistSongs ==
    \E p \in PlaylistIds :
        /\ Complete("get_playlist_songs", [playlist_id |-> p], None,
                    db_get_playlist_songs(table, p))
        /\ UNCHANGED issued

\* the library side of the entity store
NextLibrary ==
    \/ Tick
    \/ CreateUser
    \/ AddSongToUserCollection
    \/ GetUserSongs
    \/ UpdateUserSong
    \/ RemoveSongFromUserCollection

SpecLibrary == Init /\ [][NextLibrary]_vars

\* the playlist side of the entity store
NextPlaylists ==
    \/ CreateSong
    \/ CreatePlaylist
    \/ DeletePlaylist
    \/ AddSongToPlaylist
    \/ GetPlaylistSongs

SpecPlaylists == Init /\ [][NextPlaylists]_vars

\* playlist memberships written over time
NextMemberships ==
    \/ Tick
    \/ AddSongToPlaylist

SpecMemberships == Init /\ [][NextMemberships]_vars

-----------------------------------------------------------------------------
(* Properties of the playlist side, under SpecPlaylists and SpecMemberships *)

\* the keys of the Playlist-Song records of a playlist
PlaylistSongKeys(t, playlist_id) ==
    {k \in DOMAIN t : k[1] = PlaylistPK(playlist_id) /\ BeginsWith(k[2], SongPrefix)}

\* C1: once delete_playlist(user, p) has run to completion, no Playlist-Song
\* record with partition key PLAYLIST#p remains, whatever song ids the
\* membership records reference.
C1_DeleteCascades ==
    (last.op = "delete_playlist" /\ last.exc = "")
        => PlaylistSongKeys(table, last.args.playlist_id) = {}

\* C2 as claimed: a playlist holds at most one membership record per position.
C2_OneRecordPerPosition ==
    \A p \in PlaylistIds :
        \A k1, k2 \in PlaylistSongKeys(table, p) :
            table[k1].position = table[k2].position => k1 = k2

\* C2 as amended: add_song_to_playlist(p, s, n) is last-writer-wins per
\* (song id, position): afterwards p holds exactly one membership record with
\* song id s and position n, the item this call wrote, and every record that
\* is not a membership of p with song id s and position n is as it was, the
\* memberships of other songs at position n included.
C2_LastWriterWinsPerSongAndPosition ==
    [][ last'.op = "add_song_to_playlist" =>
          LET a == last'.args
              same(t) == {k \in PlaylistSongKeys(t, a.playlist_id) :
                            /\ t[k].song_id = a.song_id
                            /\ t[k].position = a.position}
          IN  /\ Cardinality(same(table')) = 1
              /\ \A k \in same(table') :
                    /\ table'[k] = last'.ret
                    /\ table'[k].added_at = last'.time
              /\ \A k \in (DOMAIN table) \ same(table) :
                    k \in DOMAIN table' /\ table'[k] = table[k]
              /\ (DOMAIN table') \ same(table') \subseteq DOMAIN table
      ]_vars

\* a song has been added again at its position, later than the first time,
\* while another song of the playlist holds the same position
C2_Witness ==
    /\ last.op = "add_song_to_playlist"
    /\ last.before # None
    /\ last.before[1].added_at < last.ret.added_at
    /\ \E k \in PlaylistSongKeys(table, last.args.playlist_id) :
          /\ table[k].position = last.args.position
          /\ table[k].song_id # last.args.song_id

\* C6: get_playlist_songs(p) returns the memberships in non-decreasing numeric
\* position, exactly one entry for each membership record of p whose canonical
\* Song record exists, whatever the order of the add_song_to_playlist calls.
C6_PlaylistSongsOrdered ==
    last.op = "get_playlist_songs" =>
        LET r == last.ret
            live == {k \in PlaylistSongKeys(table, last.args.playlist_id) :
                        db_get_song(table, table[k].song_id) # None}
        IN  /\ last.exc = ""
            /\ \A i, j \in 1..Len(r) : i < j => r[i].position <= r[j].position
            /\ Len(r) = Cardinality(live)
            /\ \A k \in live :
                  \E i \in 1..Len(r) :
                      /\ KeyOf(r[i]) = k
                      /\ r[i] = Merge(db_get_song(table, table[k].song_id)[1], table[k])
                      /\ \A j \in 1..Len(r) : KeyOf(r[j]) = k => j = i

\* the list returned is in position order where the sort keys are not
C6_Witness ==
    /\ last.op = "get_playlist_songs"
    /\ \E i, j \in 1..Len(last.ret) :
          /\ i < j
          /\ last.ret[i].position < last.ret[j].position
          /\ StrLess(last.ret[j].SK, last.ret[i].SK)

\* C10: of two membership records of one playlist with positions p1 < p2, both
\* in 0..9999, the sort key of the first is lexicographically smaller.
C10_SortKeysOrderLikePositions ==
    \A p \in PlaylistIds :
        \A k1, k2 \in PlaylistSongKeys(table, p) :
            ( /\ table[k1].position \in 0..9999
              /\ table[k2].position \in 0..9999
              /\ table[k1].position < table[k2].position )
                => StrLess(k1[2], k2[2])

\* C14: delete_playlist(u, p), called while the store holds no Playlist
\* record at (USER#u, PLAYLIST#p), leaves the whole store as it was, the
\* Playlist-Song records under PLAYLIST#p included.
C14_DeleteByNonOwnerChangesNothing ==
    [][ (last'.op = "delete_playlist" /\ last'.before = None) => table' = table ]_vars

-----------------------------------------------------------------------------
(* Properties of the library side, under SpecLibrary *)

\* C3: update_user_song(user, song, updates) fails with NotFound when the
\* store holds no User-Song record at (USER#user, SONG#song), and then no
\* record is created at that key.
C3_UpdateMissingIsNotFound ==
    (last.op = "update_user_song" /\ last.before = None) =>
        /\ last.exc = "NotFound"
        /\ <<UserPK(last.args.user_id), SongSK(last.args.song_id)>> \notin DOMAIN table

\* C5: a further add_song_to_user_collection(user, song, fields) over an
\* existing User-Song record leaves one record at that key, with play_count 0,
\* added_at the time of this call, and rating and notes from this call's
\* fields alone: nothing of the record it replaced is kept.
C5_LibraryAddResets ==
    (last.op = "add_song_to_user_collection" /\ last.before # None) =>
        LET a == last.args
            key == <<UserPK(a.user_id), SongSK(a.song_id)>>
        IN  /\ key \in DOMAIN table
            /\ table[key] =
                 [PK |-> key[1], SK |-> key[2], user_id |-> a.user_id,
                  song_id |-> a.song_id, added_at |-> last.time,
                  rating |-> IF "rating" \in DOMAIN a.song_data
                             THEN a.song_data.rating ELSE None,
                  notes |-> IF "notes" \in DOMAIN a.song_data
                            THEN a.song_data.notes ELSE None,
                  play_count |-> Some(0), entity_type |-> "user_song"]

\* a record with a play count, a rating and notes of its own, added earlier,
\* has been replaced by an add that carries no rating and no notes
C5_Witness ==
    /\ last.op = "add_song_to_user_collection"
    /\ last.before # None
    /\ DOMAIN last.before[1] = DOMAIN last.ret
    /\ last.before[1].play_count = Some(7)
    /\ last.before[1].rating = Some(2)
    /\ last.before[1].notes = Some("classic")
    /\ last.before[1].added_at < last.time
    /\ "rating" \notin DOMAIN last.args.song_data

\* C8: after add_song_to_user_collection(user, song, fields), get_user_songs(user)
\* holds exactly one entry for that song, the canonical Song record overridden
\* by the User-Song record; and in every state get_user_songs(user) completes
\* without error, omitting the User-Song records whose canonical Song record
\* is absent.
C8_AddThenReadRoundTrip ==
    /\ \A u \in LibraryUsers :
          LET g == db_get_user_songs(table, u)
          IN  /\ g.exc = ""
              /\ \A i \in 1..Len(g.ret) : db_get_song(table, g.ret[i].song_id) # None
    /\ last.op = "add_song_to_user_collection" =>
          LET a == last.args
              g == db_get_user_songs(table, a.user_id)
              hits == {i \in 1..Len(g.ret) : g.ret[i].song_id = a.song_id}
          IN  /\ Cardinality(hits) = 1
              /\ \A i \in hits :
                    g.ret[i] = Merge(table[<<SongPK(a.song_id), METADATA>>],
                                     table[<<UserPK(a.user_id), SongSK(a.song_id)>>])

\* the kind a record's key shape implies
KindOfKey(k) ==
    LET isUser == BeginsWith(k[1], UserPK(<<>>))
    IN  IF isUser /\ k[2] = METADATA THEN "user"
        ELSE IF isUser /\ BeginsWith(k[2], SongPrefix) THEN "user_song"
        ELSE IF isUser /\ BeginsWith(k[2], PlaylistPrefix) THEN "playlist"
        ELSE IF BeginsWith(k[1], SongPrefix) /\ k[2] = METADATA THEN "song"
        ELSE IF BeginsWith(k[1], PlaylistPrefix) /\ BeginsWith(k[2], SongPrefix)
             THEN "playlist_song"
        ELSE "none"

\* C9: every record carries an entity_type tag, the kind its key shape implies.
C9_EntityTypeMatchesKey ==
    \A k \in DOMAIN table :
        /\ "entity_type" \in DOMAIN table[k]
        /\ table[k].entity_type = KindOfKey(k)

-----------------------------------------------------------------------------
(* The songs application (songs.py): requests validated by the request      *)
(* models, then handled; every exception of a handler becomes a 500         *)

\* RatingValid with a fault: the upper limit is missing
RatingValid_NoUpperLimit(rating) == rating = None \/ rating[1] >= 1

\* Field(None, ge=1, le=5)
RatingValid(rating) == rating = None \/ (rating[1] >= 1 /\ rating[1] <= 5)

NoFields ==
    [title |-> None, artist |-> None, album |-> None, year |-> None, genre |-> None,
     duration |-> None, cover_art_url |-> None, rating |-> None, notes |-> None]

\* CreateSongRequest: title and artist are required
CreateSongRequestValid(request) ==
    /\ request.title # None
    /\ request.artist # None
    /\ RatingValid(request.rating)

\* UpdateSongRequest: every field is optional
UpdateSongRequestValid(request) == RatingValid(request.rating)

CreateSongRequests ==
    { Merge(NoFields, [title |-> Some(Bohemian), artist |-> Some(Queen)]),
      Merge(NoFields, [title |-> Some(Bohemian), artist |-> Some(Queen),
                       genre |-> Some(Rock), rating |-> Some(5),
                       notes |-> Some("classic")]),
      Merge(NoFields, [title |-> Some(Bohemian), artist |-> Some(Queen),
                       rating |-> Some(6)]),
      Merge(NoFields, [title |-> Some(Bohemian)]) }

UpdateSongRequests ==
    { Merge(NoFields, [rating |-> Some(3), notes |-> Some("worn")]),
      Merge(NoFields, [rating |-> Some(0)]),
      Merge(NoFields, [title |-> Some(Rock)]) }

SongQueries ==
    { [artist |-> None, genre |-> None, search |-> None],
      [artist |-> Some(Queen), genre |-> Some(Rock), search |-> None],
      [artist |-> None, genre |-> Some(Rock), search |-> None],
      [artist |-> None, genre |-> None, search |-> Some(<<"Q", "U", "E", "E", "N">>)] }

\* attributes that hold Optional values in the table
OptionalAttrs == {"rating", "notes", "play_count", "name", "description", "is_public"}

\* song_data of create_song: the request's fields that are not None
SongDataOf(request) ==
    [f \in {g \in DOMAIN request : request[g] # None} |->
        IF f \in OptionalAttrs THEN request[f] ELSE request[f][1]]

\* the handler's answer
Responded(op, args, before, status, body, detail) ==
    [op |-> op, args |-> args, time |-> now, before |-> before,
     ret |-> body, exc |-> detail, status |-> status]

\* song.get(field, '')
StrField(song, field) == IF field \in DOMAIN song THEN song[field] ELSE <<>>

MatchesSearch(song, search_lower) ==
    \/ Contains(Lower(StrField(song, "title")), search_lower)
    \/ Contains(Lower(StrField(song, "artist")), search_lower)
    \/ Contains(Lower(StrField(song, "album")), search_lower)

\* GET /songs
GetSongs ==
    \E q \in SongQueries :
        LET user_id == MockUserId
            found == IF q.artist # None /\ q.artist[1] # <<>>
                       THEN Result(table, db_search_songs_by_artist(table, q.artist[1]), "")
                     ELSE IF q.genre # None /\ q.genre[1] # <<>>
                       THEN Result(table, db_search_songs_by_genre(table, q.genre[1]), "")
                     ELSE db_get_user_songs(table, user_id)
            songs == IF q.search # None /\ q.search[1] # <<>>
                       THEN SelectSeq(found.ret,
                                      LAMBDA song : MatchesSearch(song, Lower(q.search[1])))
                     ELSE found.ret
        IN  /\ last' = IF found.exc # ""
                         THEN Responded("GET /songs", q, None, 500, None, found.exc)
                       ELSE Responded("GET /songs", q, None, 200, songs, "")
            /\ UNCHANGED <<table, now, issued, procs>>

\* POST /songs
PostSongs ==
    \E request \in CreateSongRequests :
        IF ~CreateSongRequestValid(request)
        THEN /\ last' = Responded("POST /songs", [request |-> request], None, 422, None, "")
             /\ UNCHANGED <<table, now, issued, procs>>
        ELSE \E song_id \in SongUuids \ issued :
                LET user_id == MockUserId
                    res == db_add_song_to_user_collection(table, now, user_id, song_id,
                                                          SongDataOf(request))
                IN  /\ table' = res.t
                    /\ issued' = issued \cup {song_id}
                    /\ last' = Responded("POST /songs",
                                         [request |-> request, song_id |-> song_id],
                                         GetItem(table, <<UserPK(user_id), SongSK(song_id)>>),
                                         200, res.ret, "")
                    /\ UNCHANGED <<now, procs>>

\* PUT /songs/{song_id}
PutSong ==
    \E song_id \in SongIds, request \in UpdateSongRequests :
        LET user_id == MockUserId
            args == [request |-> request, song_id |-> song_id]
            before == GetItem(table, <<UserPK(user_id), SongSK(song_id)>>)
            user_song_updates ==
                [f \in {g \in {"rating", "notes"} : request[g] # None} |-> request[f]]
            res == IF DOMAIN user_song_updates # {}
                   THEN db_update_user_song(table, user_id, song_id, user_song_updates)
                   ELSE Result(table, None, "")
        IN  IF ~UpdateSongRequestValid(request)
            THEN /\ last' = Responded("PUT /songs/{song_id}", args, before, 422, None, "")
                 /\ UNCHANGED <<table, now, issued, procs>>
            ELSE /\ table' = res.t
                 /\ last' = IF res.exc # ""
                              THEN Responded("PUT /songs/{song_id}", args, before, 500,
                                             None, res.exc)
                            ELSE Responded("PUT /songs/{song_id}", args, before, 200,
                                           None, "")
                 /\ UNCHANGED <<now, issued, procs>>

\* DELETE /songs/{song_id}
DeleteSong ==
    \E song_id \in SongIds :
        LET user_id == MockUserId
            res == db_remove_song_from_user_collection(table, user_id, song_id)
        IN  /\ table' = res.t
            /\ last' = Responded("DELETE /songs/{song_id}", [song_id |-> song_id],
                                 GetItem(table, <<UserPK(user_id), SongSK(song_id)>>),
                                 200, None, "")
            /\ UNCHANGED <<now, issued, procs>>

NextSongsApp ==
    \/ Tick
    \/ GetSongs
    \/ PostSongs
    \/ PutSong
    \/ DeleteSong

SpecSongsApp == Init /\ [][NextSongsApp]_vars

-----------------------------------------------------------------------------
(* Properties of the songs application, under SpecSongsApp *)

\* the request of the last call carries a rating outside 1..5
RatingOutOfRange(call) ==
    /\ call.op \in {"POST /songs", "PUT /songs/{song_id}"}
    /\ call.args.request.rating # None
    /\ call.args.request.rating[1] \notin 1..5

\* C7: a POST /songs or PUT /songs/{id} request whose rating is an integer
\* outside 1..5 is answered 422 with the store untouched, and every User-Song
\* record's rating is absent, null or an integer in 1..5.
C7_RatingRangeEnforced ==
    /\ [][ RatingOutOfRange(last') => (last'.status = 422 /\ table' = table) ]_vars
    /\ [](\A k \in DOMAIN table :
            (KindOfKey(k) = "user_song" /\ "rating" \in DOMAIN table[k]) =>
                (table[k].rating = None \/ table[k].rating[1] \in 1..5))

\* a request with rating 6 or 0 has been refused while the library holds
\* rated songs
C7_Witness ==
    /\ RatingOutOfRange(last)
    /\ last.status = 422
    /\ \E k \in DOMAIN table :
          /\ KindOfKey(k) = "user_song"
          /\ "rating" \in DOMAIN table[k]
          /\ table[k].rating # None

\* C13: after any sequence of POST /songs, PUT /songs/{id} and
\* DELETE /songs/{id} requests, every record under USER#u whose sort key
\* starts with SONG# carries a song_id attribute, get_user_songs(u) completes
\* without error, and GET /songs without filters is answered 200.
C13_ListingStaysAvailable ==
    /\ \A k \in DOMAIN table :
          (BeginsWith(k[1], UserPK(<<>>)) /\ BeginsWith(k[2], SongPrefix))
              => "song_id" \in DOMAIN table[k]
    /\ db_get_user_songs(table, MockUserId).exc = ""
    /\ (last.op = "GET /songs" /\ last.args.artist = None /\ last.args.genre = None)
          => last.status = 200

\* the attributes a canonical Song record may carry: its key and index
\* attributes and the song metadata
CanonicalSongAttrs ==
    {"PK", "SK", "song_id", "entity_type", "GSI1PK", "GSI1SK", "GSI2PK", "GSI2SK",
     "title", "artist", "album", "year", "genre", "duration", "cover_art_url"}

\* the artists and genres searched for
SearchArtists == {Queen}
SearchGenres == {Rock, <<"U", "n", "k", "n", "o", "w", "n">>}

\* C16: a canonical Song record holds only song metadata, and the rating and
\* notes supplied with POST /songs do not show in search results: had the same
\* request been made without them, search_songs_by_artist and
\* search_songs_by_genre would return the same items afterwards.
C16_AnnotationsDoNotLeak ==
    /\ [](\A k \in DOMAIN table :
            KindOfKey(k) = "song" => DOMAIN table[k] \subseteq CanonicalSongAttrs)
    /\ [][ (last'.op = "POST /songs" /\ last'.status = 200) =>
             LET request == last'.args.request
                 plain == [request EXCEPT !.rating = None, !.notes = None]
                 other == db_add_song_to_user_collection(
                              table, now, MockUserId, last'.args.song_id,
                              SongDataOf(plain)).t
             IN  /\ \A artist \in SearchArtists :
                       db_search_songs_by_artist(table', artist)
                           = db_search_songs_by_artist(other, artist)
                 /\ \A genre \in SearchGenres :
                       db_search_songs_by_genre(table', genre)
                           = db_search_songs_by_genre(other, genre)
       ]_vars

-----------------------------------------------------------------------------
(* Concurrent requests: each process runs add_song_to_user_collection as    *)
(* its separate store calls, and the calls of different processes           *)
(* interleave                                                               *)

\* the song ids the concurrent calls are made for
ConcSongIds == {<<"a">>}

\* a process enters add_song_to_user_collection(user_id, song_id, song_data)
BeginAdd(p) ==
    /\ procs[p].pc = "idle"
    /\ \E u \in Users, s \in ConcSongIds, d \in SongDatas :
          procs' = [procs EXCEPT ![p] = [pc |-> "get_song", user_id |-> u,
                                         song_id |-> s, song_data |-> d]]
    /\ UNCHANGED <<table, now, issued, last>>

\* existing_song = self.get_song(song_id); if not existing_song: ...
AddGetSong(p) ==
    /\ procs[p].pc = "get_song"
    /\ procs' = [procs EXCEPT ![p].pc =
                    IF db_get_song(table, procs[p].song_id) = None
                    THEN "create_song" ELSE "put_item"]
    /\ UNCHANGED <<table, now, issued, last>>

\* self.create_song(song_id, song_data)
AddCreateSong(p) ==
    /\ procs[p].pc = "create_song"
    /\ table' = db_create_song(table, procs[p].song_id, procs[p].song_data).t
    /\ procs' = [procs EXCEPT ![p].pc = "put_item"]
    /\ UNCHANGED <<now, issued, last>>

\* self.table.put_item(Item=item); return item
AddPutItem(p) ==
    /\ procs[p].pc = "put_item"
    /\ LET a == procs[p]
           item == NewUserSongItem(now, a.user_id, a.song_id, a.song_data)
       IN  /\ table' = PutItem(table, item)
           /\ last' = Called("add_song_to_user_collection",
                             [user_id |-> a.user_id, song_id |-> a.song_id,
                              song_data |-> a.song_data],
                             now, GetItem(table, KeyOf(item)), Result(table', item, ""))
    /\ procs' = [procs EXCEPT ![p] = Idle]
    /\ UNCHANGED <<now, issued>>

NextConcurrent ==
    \/ Tick
    \/ \E p \in Procs : BeginAdd(p)
    \/ \E p \in Procs : AddGetSong(p)
    \/ \E p \in Procs : AddCreateSong(p)
    \/ \E p \in Procs : AddPutItem(p)

SpecConcurrent == Init /\ [][NextConcurrent]_vars

\* C4: over any interleaving of add_song_to_user_collection calls, the
\* canonical record SONG#song_id/METADATA is written at most once: it is
\* written only while absent, and once it exists its fields never change and
\* it is never deleted.
C4_CanonicalSongWrittenOnce ==
    [][ /\ \A p \in Procs :
              (procs[p].pc = "create_song" /\ procs'[p].pc = "put_item") =>
                  <<SongPK(procs[p].song_id), METADATA>> \notin DOMAIN table
        /\ \A s \in SongIds :
              <<SongPK(s), METADATA>> \in DOMAIN table =>
                  /\ <<SongPK(s), METADATA>> \in DOMAIN table'
                  /\ table'[<<SongPK(s), METADATA>>] = table[<<SongPK(s), METADATA>>]
      ]_vars

-----------------------------------------------------------------------------
(* The playlists application (playlists.py).  Every handler body is inside *)
(* try ... except Exception, and HTTPException is an Exception: what a      *)
(* handler raises itself is caught like a store failure and answered 500    *)

\* the most Playlist-Song records the handlers are run up to
MaxMemberships == 2

\* str(e) of HTTPException(404, "Playlist not found"): the text is
\* "404: Playlist not found" where the exception class defines __str__ and
\* empty where it does not
NotFoundTexts == {"404: Playlist not found", ""}

\* str(e) of HTTPException(400, "No updates provided")
NoUpdatesTexts == {"400: No updates provided", ""}

\* CreatePlaylistRequest: name is required, is_public defaults to False
CreatePlaylistRequestValid(request) == request.name # None

CreatePlaylistRequests ==
    PlaylistDatas \cup {[name |-> None, description |-> None, is_public |-> Some(FALSE)]}

UpdatePlaylistRequests ==
    { [name |-> None, description |-> None, is_public |-> None],
      [name |-> Some("road"), description |-> None, is_public |-> None],
      [name |-> None, description |-> Some("trip"), is_public |-> None] }

\* AddSongToPlaylistRequest: song_id is required, position is any int or None
AddSongToPlaylistRequestValid(request) == request.song_id # None

AddSongToPlaylistRequests ==
    {[song_id |-> Some(s), position |-> n] :
        s \in SongIds, n \in {None, Some(10)}}
    \cup {[song_id |-> None, position |-> None]}

\* GET /playlists
AppGetPlaylists ==
    LET user_id == MockUserId
        playlists == db_get_user_playlists(table, user_id)
        counted == [i \in 1..Len(playlists) |->
                       Merge(playlists[i],
                             [song_count |->
                                 Len(db_get_playlist_songs(table, playlists[i].playlist_id).ret)])]
    IN  /\ last' = IF \E i \in 1..Len(playlists) : "playlist_id" \notin DOMAIN playlists[i]
                     THEN Responded("GET /playlists", <<>>, None, 500, None, "KeyError")
                   ELSE Responded("GET /playlists", <<>>, None, 200, counted, "")
        /\ UNCHANGED <<table, now, issued, procs>>

\* POST /playlists
AppCreatePlaylist ==
    \E request \in CreatePlaylistRequests :
        IF ~CreatePlaylistRequestValid(request)
        THEN /\ last' = Responded("POST /playlists", [request |-> request], None, 422,
                                  None, "")
             /\ UNCHANGED <<table, now, issued, procs>>
        ELSE \E playlist_id \in PlaylistUuids \ issued :
                LET user_id == MockUserId
                    playlist_data == [name |-> request.name,
                                      description |-> request.description,
                                      is_public |-> request.is_public]
                    res == db_create_playlist(table, now, playlist_id, user_id, playlist_data)
                IN  /\ table' = res.t
                    /\ issued' = issued \cup {playlist_id}
                    /\ last' = Responded("POST /playlists",
                                         [request |-> request, playlist_id |-> playlist_id],
                                         db_get_playlist(table, user_id, playlist_id),
                                         200, res.ret, "")
                    /\ UNCHANGED <<now, procs>>

\* GET /playlists/{playlist_id}
AppGetPlaylist ==
    \E playlist_id \in PlaylistIds :
        LET user_id == MockUserId
            args == [playlist_id |-> playlist_id]
            playlist == db_get_playlist(table, user_id, playlist_id)
            songs == db_get_playlist_songs(table, playlist_id)
        IN  /\ IF playlist = None
               THEN \E text \in NotFoundTexts :
                       last' = Responded("GET /playlists/{playlist_id}", args, playlist,
                                         500, None, text)
               ELSE IF songs.exc # ""
               THEN last' = Responded("GET /playlists/{playlist_id}", args, playlist,
                                      500, None, songs.exc)
               ELSE last' = Responded("GET /playlists/{playlist_id}", args, playlist, 200,
                                      Merge(playlist[1], [songs |-> songs.ret]), "")
            /\ UNCHANGED <<table, now, issued, procs>>

\* PUT /playlists/{playlist_id}
AppUpdatePlaylist ==
    \E playlist_id \in PlaylistIds, request \in UpdatePlaylistRequests :
        LET user_id == MockUserId
            args == [playlist_id |-> playlist_id, request |-> request]
            before == db_get_playlist(table, user_id, playlist_id)
            updates == NonNull(request)
            res == db_update_playlist(table, user_id, playlist_id, updates)
        IN  IF DOMAIN updates = {}
            THEN /\ \E text \in NoUpdatesTexts :
                       last' = Responded("PUT /playlists/{playlist_id}", args, before,
                                         500, None, text)
                 /\ UNCHANGED <<table, now, issued, procs>>
            ELSE /\ table' = res.t
                 /\ last' = IF res.exc # ""
                              THEN Responded("PUT /playlists/{playlist_id}", args, before,
                                             500, None, res.exc)
                            ELSE Responded("PUT /playlists/{playlist_id}", args, before,
                                           200, res.ret, "")
                 /\ UNCHANGED <<now, issued, procs>>

\* DELETE /playlists/{playlist_id}
AppDeletePlaylist ==
    \E playlist_id \in PlaylistIds :
        LET user_id == MockUserId
            args == [playlist_id |-> playlist_id]
            before == db_get_playlist(table, user_id, playlist_id)
            res == db_delete_playlist(table, user_id, playlist_id)
        IN  /\ table' = res.t
            /\ last' = IF res.exc # ""
                         THEN Responded("DELETE /playlists/{playlist_id}", args, before,
                                        500, None, res.exc)
                       ELSE Responded("DELETE /playlists/{playlist_id}", args, before,
                                      200, None, "")
            /\ UNCHANGED <<now, issued, procs>>

\* POST /playlists/{playlist_id}/songs
AppAddSongToPlaylist ==
    \E playlist_id \in PlaylistIds, request \in AddSongToPlaylistRequests :
        LET user_id == MockUserId
            args == [playlist_id |-> playlist_id, request |-> request]
            playlist == db_get_playlist(table, user_id, playlist_id)
            current_songs == db_get_playlist_songs(table, playlist_id)
            position == IF request.position # None THEN request.position[1]
                        ELSE Len(current_songs.ret) + 1
            res == db_add_song_to_playlist(table, now, playlist_id, request.song_id[1],
                                           position)
        IN  IF ~AddSongToPlaylistRequestValid(request)
            THEN /\ last' = Responded("POST /playlists/{playlist_id}/songs", args, playlist,
                                      422, None, "")
                 /\ UNCHANGED <<table, now, issued, procs>>
            ELSE IF playlist = None
            THEN /\ \E text \in NotFoundTexts :
                       last' = Responded("POST /playlists/{playlist_id}/songs", args,
                                         playlist, 500, None, text)
                 /\ UNCHANGED <<table, now, issued, procs>>
            ELSE IF current_songs.exc # ""
            THEN /\ last' = Responded("POST /playlists/{playlist_id}/songs", args, playlist,
                                      500, None, current_songs.exc)
                 /\ UNCHANGED <<table, now, issued, procs>>
            ELSE /\ Cardinality(PlaylistSongKeys(res.t, playlist_id)) <= MaxMemberships
                 /\ table' = res.t
                 /\ last' = Responded("POST /playlists/{playlist_id}/songs", args, playlist,
                                      200, res.ret, "")
                 /\ UNCHANGED <<now, issued, procs>>

\* the playlists application over a table that also holds canonical songs and
\* playlists of other users
NextPlaylistsApp ==
    \/ CreateSong
    \/ CreatePlaylist
    \/ AppGetPlaylists
    \/ AppCreatePlaylist
    \/ AppGetPlaylist
    \/ AppUpdatePlaylist
    \/ AppDeletePlaylist
    \/ AppAddSongToPlaylist

SpecPlaylistsApp == Init /\ [][NextPlaylistsApp]_vars

-----------------------------------------------------------------------------
(* Properties of the playlists application, under SpecPlaylistsApp *)

\* C11: GET /playlists/{id} and POST /playlists/{id}/songs (with a valid
\* body), when the store holds no Playlist record at
\* (USER#acting_user, PLAYLIST#id), are answered 404 "Playlist not found".
C11_MissingPlaylistIs404 ==
    ( /\ last.op \in {"GET /playlists/{playlist_id}", "POST /playlists/{playlist_id}/songs"}
      /\ last.before = None
      /\ last.status # 422 )
        => (last.status = 404 /\ last.exc = "Playlist not found")

\* C15: when POST /playlists/{id}/songs is answered 200 for a request without
\* a position, the position it assigned is strictly greater than the position
\* of every membership record the playlist held, and afterwards no other
\* membership of the playlist has that position.
C15_OmittedPositionAppends ==
    [][ ( /\ last'.op = "POST /playlists/{playlist_id}/songs"
          /\ last'.status = 200
          /\ last'.args.request.position = None )
        => LET playlist_id == last'.args.playlist_id
               item == last'.ret
           IN  /\ \A k \in PlaylistSongKeys(table, playlist_id) :
                     table[k].position < item.position
               /\ \A k \in PlaylistSongKeys(table', playlist_id) :
                     k # KeyOf(item) => table'[k].position # item.position
      ]_vars

-----------------------------------------------------------------------------
(* format_duration (models.py), applied to durations drawn from a range *)

\* the durations tried are None and the integers -MaxNegative..MaxSeconds
MaxSeconds == 3661
MaxNegative == 5

DurationInputs == {None} \cup {Some(n) : n \in (0 - MaxNegative)..MaxSeconds}

\* f"{remaining_seconds:02d}" for remaining_seconds >= 0
Format02d(n) == ZeroPad(Digits(n), 2)

\* format_duration with a fault: the minutes wrap at 60
format_duration_MinutesWrapped(seconds) ==
    IF seconds = None \/ seconds[1] < 0 THEN <<"0", ":", "0", "0">>
    ELSE Digits((seconds[1] \div 60) % 60) \o <<":">> \o Format02d(seconds[1] % 60)

format_duration(seconds) ==
    IF seconds = None \/ seconds[1] < 0 THEN <<"0", ":", "0", "0">>
    ELSE LET minutes == seconds[1] \div 60
             remaining_seconds == seconds[1] % 60
         IN  Digits(minutes) \o <<":">> \o Format02d(remaining_seconds)

\* a call format_duration(seconds) is about to be made, for any of the inputs
InitFormatDuration ==
    /\ table = <<>>
    /\ now = 0
    /\ issued = {}
    /\ procs = [p \in Procs |-> Idle]
    /\ \E seconds \in DurationInputs :
          last = Called("call format_duration", [seconds |-> seconds], 0, None,
                        Result(<<>>, None, ""))

\* the call returns
FormatDuration ==
    /\ last.op = "call format_duration"
    /\ last' = Called("format_duration", last.args, now, None,
                      Result(table, format_duration(last.args.seconds), ""))
    /\ UNCHANGED <<table, now, issued, procs>>

NextFormatDuration == FormatDuration

SpecFormatDuration == InitFormatDuration /\ [][NextFormatDuration]_vars

\* the characters of s are decimal digits
IsDigits(s) == \A i \in 1..Len(s) : Ord(s[i]) \in 3..12

\* the number a string of decimal digits denotes
RECURSIVE ParseNat(_)
ParseNat(s) ==
    IF s = <<>> THEN 0
    ELSE 10 * ParseNat(SubSeq(s, 1, Len(s) - 1)) + (Ord(s[Len(s)]) - 3)

\* C12: format_duration raises no error; for None and for a negative integer
\* it returns "0:00"; for an integer seconds >= 0 it returns M:SS, where M is
\* the decimal numeral of seconds div 60 without leading zeros and not wrapped
\* at 60, and SS is seconds mod 60 in exactly two digits.
C12_FormatDurationTotalExact ==
    last.op = "format_duration" =>
        LET seconds == last.args.seconds
            out == last.ret
            n == Len(out)
            M == SubSeq(out, 1, n - 3)
            SS == SubSeq(out, n - 1, n)
        IN  /\ last.exc = ""
            /\ IF seconds = None \/ seconds[1] < 0
               THEN out = <<"0", ":", "0", "0">>
               ELSE /\ n >= 4
                    /\ out[n - 2] = ":"
                    /\ IsDigits(M) /\ IsDigits(SS)
                    /\ Len(M) = 1 \/ M[1] # "0"
                    /\ ParseNat(SS) < 60
                    /\ ParseNat(M) * 60 + ParseNat(SS) = seconds[1]
                    /\ ParseNat(M) = seconds[1] \div 60

\* 3661 seconds have been formatted as 61:01
C12_Witness ==
    /\ last.op = "format_duration"
    /\ last.args.seconds = Some(3661)
    /\ last.ret = <<"6", "1", ":", "0", "1">>

-----------------------------------------------------------------------------
(* Concurrent requests to the playlists application: each process runs      *)
(* POST /playlists/{id}/songs or DELETE /playlists/{id} as its separate     *)
(* store calls, and the calls of different processes interleave.  The      *)
(* canonical songs are in the table from the start and stay, so the query   *)
(* and the get_song calls inside one get_playlist_songs are one read.       *)

\* the table holds the canonical Song records of the songs added to playlists
InitPlaylistRequests ==
    /\ table \in {db_create_song(<<>>, <<"a">>, d).t : d \in SongDatas}
    /\ now = 0
    /\ issued = {}
    /\ last = Called("init", <<>>, 0, None, Result(<<>>, None, ""))
    /\ procs = [p \in Procs |-> Idle]

\* a process enters add_song_to_playlist(playlist_id, request) of playlists.py
BeginAddSongToPlaylist(p) ==
    /\ procs[p].pc = "idle"
    /\ \E playlist_id \in PlaylistIds, s \in ConcSongIds, n \in {None, Some(10)} :
          procs' = [procs EXCEPT ![p] =
                       [pc |-> "get_playlist", playlist_id |-> playlist_id,
                        request |-> [song_id |-> Some(s), position |-> n]]]
    /\ UNCHANGED <<table, now, issued, last>>

\* playlist = db.get_playlist(user_id, playlist_id); if not playlist: raise ...
AddGetPlaylist(p) ==
    /\ procs[p].pc = "get_playlist"
    /\ LET a == procs[p]
           args == [playlist_id |-> a.playlist_id, request |-> a.request]
           playlist == db_get_playlist(table, MockUserId, a.playlist_id)
       IN  IF playlist = None
           THEN /\ \E text \in NotFoundTexts :
                      last' = Responded("POST /playlists/{playlist_id}/songs", args,
                                        playlist, 500, None, text)
                /\ procs' = [procs EXCEPT ![p] = Idle]
           ELSE /\ procs' = [procs EXCEPT ![p].pc = "get_playlist_songs"]
                /\ UNCHANGED last
    /\ UNCHANGED <<table, now, issued>>

\* current_songs = db.get_playlist_songs(playlist_id); position = ...
AddGetPlaylistSongs(p) ==
    /\ procs[p].pc = "get_playlist_songs"
    /\ LET a == procs[p]
           current_songs == db_get_playlist_songs(table, a.playlist_id)
           position == IF a.request.position # None THEN a.request.position[1]
                       ELSE Len(current_songs.ret) + 1
       IN  procs' = [procs EXCEPT ![p] =
                        [pc |-> "add_song_to_playlist", playlist_id |-> a.playlist_id,
                         request |-> a.request, position |-> position]]
    /\ UNCHANGED <<table, now, issued, last>>

\* playlist_song = db.add_song_to_playlist(playlist_id, request.song_id, position)
AddPutPlaylistSong(p) ==
    /\ procs[p].pc = "add_song_to_playlist"
    /\ LET a == procs[p]
           res == db_add_song_to_playlist(table, now, a.playlist_id,
                                          a.request.song_id[1], a.position)
       IN  /\ Cardinality(PlaylistSongKeys(res.t, a.playlist_id)) <= MaxMemberships
           /\ table' = res.t
           /\ last' = Responded("POST /playlists/{playlist_id}/songs",
                                [playlist_id |-> a.playlist_id, request |-> a.request],
                                GetItem(table, KeyOf(res.ret)), 200, res.ret, "")
    /\ procs' = [procs EXCEPT ![p] = Idle]
    /\ UNCHANGED <<now, issued>>

\* a process enters delete_playlist(playlist_id) of playlists.py
BeginDeletePlaylist(p) ==
    /\ procs[p].pc = "idle"
    /\ \E playlist_id \in PlaylistIds :
          procs' = [procs EXCEPT ![p] = [pc |-> "enumerate", playlist_id |-> playlist_id]]
    /\ UNCHANGED <<table, now, issued, last>>

\* playlist_songs = self.get_playlist_songs(playlist_id)
DeleteEnumerate(p) ==
    /\ procs[p].pc = "enumerate"
    /\ procs' = [procs EXCEPT ![p] =
                    [pc |-> "delete_items", playlist_id |-> procs[p].playlist_id,
                     playlist_songs |->
                         db_get_playlist_songs(table, procs[p].playlist_id).ret]]
    /\ UNCHANGED <<table, now, issued, last>>

\* for song in playlist_songs: self.table.delete_item(...)
DeletePlaylistSong(p) ==
    /\ procs[p].pc = "delete_items"
    /\ procs[p].playlist_songs # <<>>
    /\ table' = DeleteItem(table, <<PlaylistPK(procs[p].playlist_id),
                                    procs[p].playlist_songs[1].SK>>)
    /\ procs' = [procs EXCEPT ![p].playlist_songs = Tail(procs[p].playlist_songs)]
    /\ UNCHANGED <<now, issued, last>>

\* the loop is over: delete the Playlist record and answer
DeletePlaylistItem(p) ==
    /\ procs[p].pc = "delete_items"
    /\ procs[p].playlist_songs = <<>>
    /\ LET key == <<UserPK(MockUserId), PlaylistSK(procs[p].playlist_id)>>
       IN  /\ table' = DeleteItem(table, key)
           /\ last' = Responded("DELETE /playlists/{playlist_id}",
                                [playlist_id |-> procs[p].playlist_id],
                                GetItem(table, key), 200, None, "")
    /\ procs' = [procs EXCEPT ![p] = Idle]
    /\ UNCHANGED <<now, issued>>

NextPlaylistRequests ==
    \/ AppCreatePlaylist
    \/ \E p \in Procs : BeginAddSongToPlaylist(p)
    \/ \E p \in Procs : AddGetPlaylist(p)
    \/ \E p \in Procs : AddGetPlaylistSongs(p)
    \/ \E p \in Procs : AddPutPlaylistSong(p)
    \/ \E p \in Procs : BeginDeletePlaylist(p)
    \/ \E p \in Procs : DeleteEnumerate(p)
    \/ \E p \in Procs : DeletePlaylistSong(p)
    \/ \E p \in Procs : DeletePlaylistItem(p)

SpecPlaylistRequests == InitPlaylistRequests /\ [][NextPlaylistRequests]_vars

\* C17: whenever no request is in progress, every Playlist-Song record under
\* PLAYLIST#id has an existing Playlist record for that id, for any
\* interleaving of POST /playlists/{id}/songs and DELETE /playlists/{id}.
C17_NoOrphanMemberships ==
    (\A p \in Procs : procs[p].pc = "idle") =>
        \A playlist_id \in PlaylistIds :
            PlaylistSongKeys(table, playlist_id) # {} =>
                \E u \in Users : db_get_playlist(table, u, playlist_id) # None

====
